---- MODULE Spec2Model ----
(***************************************************************************)
(* Scan job orchestrator of the Milestone Lead Generator.                  *)
(*                                                                         *)
(* Processes, per scan id:                                                 *)
(*   - the request thread of POST /scan (routes.start_scan followed by     *)
(*     LinkedInScraper.start_scan_async),                                  *)
(*   - the worker thread (LinkedInScraper.run_scan and the helpers it      *)
(*     calls),                                                             *)
(*   - the request thread of POST /scan/<id>/cancel (routes.cancel_scan).  *)
(* Every call of the storage service is one atomic step; a handler's local *)
(* copy of the record (scan_data) lives between its get_scan and its       *)
(* save_scan.  Timestamps (created_at, started_at, ...) and recent_log are *)
(* left out of the record: no guard of the code reads them.                *)
(***************************************************************************)
EXTENDS Integers, Sequences, FiniteSets, TLC

(***************************************************************************)
(* Bounds of the model.                                                    *)
(***************************************************************************)
MaxCompanies == 2
MaxPosts == 1
MaxFaults == 1

(***************************************************************************)
(* Program constants.                                                      *)
(***************************************************************************)
AcceptThreshold == 75
ProgressBase == 10
ProgressSpan == 85
ProgressDone == 100

\* f"scan-{uuid.uuid4().hex[:8]}"
ScanIds == {"scan-0000000a"}
ScanIdUniverse == ScanIds \cup {"scan-0000000b", "scan-00000001", "scan-00000010"}
\* round(random.uniform(0.7, 0.98), 2), in hundredths
Scores == {74, 75}

\* get_scan found nothing (None)
NoRec == [status |-> "none"]
Terminal == {"completed", "failed", "cancelled"}

\* request parameters of POST /scan that the code branches on
Params ==
    { [location |-> "NYC", radius_km |-> 50, days_back |-> 30, types |-> <<"funding">>],
      [location |-> "",    radius_km |-> 50, days_back |-> 30, types |-> <<"funding">>],
      [location |-> "NYC", radius_km |-> 50, days_back |-> 0,  types |-> <<"funding">>],
      [location |-> "NYC", radius_km |-> 50, days_back |-> 30, types |-> <<>>] }
NoParams == [location |-> "", radius_km |-> 0, days_back |-> 0, types |-> <<>>]

VARIABLES
    store,        \* storage service: scan id -> stored scan record or NoRec
    logs,         \* storage service: scan id -> stored scan log
    leads,        \* storage service: lead id -> stored lead record
    active_scans, \* LinkedInScraper.active_scans (its keys)
    params,       \* arguments of the scan
    rpc, rdata,   \* POST /scan request thread: position, scan_data
    wpc, w,       \* worker thread: position, locals
    cpc, cdata,   \* POST /cancel request thread: position, scan_data
    faults,       \* storage calls that have raised so far
    resp,         \* HTTP status of the last answer of the cancel and of the
                  \* status route, where the routes run on a system at rest
    lp,           \* LeadProcessor: the post in hand, its search parameters and
                  \* the decisions made about it
    lr,           \* the lead routes: the request threads of get_lead_details
                  \* and favorite_lead
    ds,           \* DataStorage: the main file and the calls made
    cm,           \* CloudMilestoneLeadGenerator.run_scan: position and effects
    hist          \* history of what happened, per scan (for the properties)

vars == <<store, logs, leads, active_scans, params, rpc, rdata, wpc, w,
          cpc, cdata, faults, resp, lp, lr, ds, cm, hist>>

(***************************************************************************)
(* Pure helpers.                                                           *)
(***************************************************************************)
\* routes.start_scan: the scan_config literal
NewScan ==
    [status |-> "pending", progress |-> 0, companies |-> 0,
     posts |-> 0, leads |-> 0, error |-> FALSE]

\* run_scan: progress = 10 + int(85 * ((i + 1) / len(companies))); the float
\* product truncates to the integer quotient for every list length of the model
Progress_m(i, n) == ProgressBase + 5 + (ProgressSpan * (i + 1)) \div n
Progress(i, n) == ProgressBase + (ProgressSpan * (i + 1)) \div n

\* run_scan: if post['score'] >= 0.75
Accept_m(score) == score > AcceptThreshold
Accept(score) == score >= AcceptThreshold

\* run_scan: lead_id = f"lead-{scan_id}-{total_leads}"
LeadId_m(scan_id, total_leads) == "lead-" \o scan_id
LeadId(scan_id, total_leads) == "lead-" \o scan_id \o "-" \o ToString(total_leads)

\* run_scan: scan_data['stats']['posts'] = total_posts; ['leads'] = total_leads
SetStats_ahead(rec, total_posts, total_leads) ==
    [rec EXCEPT !.posts = total_posts + 1, !.leads = total_leads + 1]
SetStats_m(rec, total_posts, total_leads) ==
    [rec EXCEPT !.posts = total_leads, !.leads = total_posts]
SetStats(rec, total_posts, total_leads) ==
    [rec EXCEPT !.posts = total_posts, !.leads = total_leads]

\* cancel_scan: 404 when the record is absent, 400 when its status is neither
\* pending nor in_progress, else 200
cancel_scan_response_m(scan_data) ==
    IF scan_data = NoRec \/ scan_data.status \in {"pending", "in_progress"}
    THEN 200 ELSE 400
cancel_scan_response(scan_data) ==
    IF scan_data = NoRec THEN 404
    ELSE IF scan_data.status \notin {"pending", "in_progress"} THEN 400
    ELSE 200

\* get_scan_status: 404 when the record is absent, else the record with 200
get_scan_status_response(scan_data) == IF scan_data = NoRec THEN 404 ELSE 200

\* start_scan_async: scan_data['status'] = 'in_progress'
StartRecord_m(rec) == rec
StartRecord(rec) == [rec EXCEPT !.status = "in_progress"]

\* cancel_scan: scan_data['status'] = 'cancelled'
CancelRecord_m(rec) == [rec EXCEPT !.status = "cancelled", !.error = TRUE]
CancelRecord(rec) == [rec EXCEPT !.status = "cancelled"]

\* fail_scan: scan_data['status'] = 'failed'; scan_data['error'] = error_message
FailRecord_m(rec) == [rec EXCEPT !.status = "failed"]
FailRecord(rec) == [rec EXCEPT !.status = "failed", !.error = TRUE]

\* find_company_milestones raises for these arguments once it builds a post:
\* random.choice([]) -> IndexError, random.randint(1, days_back < 1) -> ValueError
ExtractorRaises(p) == p.types = <<>> \/ p.days_back < 1

\* the parameters the specification calls malformed
Malformed(p) ==
    p.location = "" \/ p.radius_km <= 0 \/ p.days_back < 0 \/ p.types = <<>>

\* the lists find_company_milestones can return: [] or 1..MaxPosts posts
PostLists == UNION { [1..k -> Scores] : k \in 0..MaxPosts }

CountMeeting(ps) == Cardinality({ k \in DOMAIN ps : ps[k] >= AcceptThreshold })

NoLocals ==
    [i |-> 0, n |-> 0, total_posts |-> 0, total_leads |-> 0, progress |-> 0,
     posts |-> <<>>, scan_data |-> NoRec, ret |-> "none"]

\* cancelSaved:     a cancel request has saved status cancelled
\* cancelOk:        ... after reading status in_progress
\* extAfterCancel:  extractor calls made after such a cancel returned
\* leadAfterCancel: a lead was saved for a company started after it returned
\* returned:        posts returned by the extractor so far
\* meeting:         ... of which the score meets the threshold
\* saved:           save_lead calls made by the worker
\* raised:          an exception reached run_scan's handler
NoHist ==
    [cancelSaved |-> FALSE, cancelOk |-> FALSE, extAfterCancel |-> 0,
     leadAfterCancel |-> FALSE, returned |-> 0, meeting |-> 0, saved |-> 0,
     raised |-> FALSE]

(***************************************************************************)
(* Storage service (job store and lead store).                             *)
(***************************************************************************)
\* get_scan: a fresh copy of the stored record, None when absent
get_scan(id) == store[id]
\* save_scan: unconditional replacement of the whole stored record
save_scan(id, rec) == [store EXCEPT ![id] = rec]
\* save_lead: upsert of the lead record under its id
save_lead(id, lead) ==
    [k \in DOMAIN leads \cup {id} |-> IF k = id THEN lead ELSE leads[k]]
\* update_scan_log: get_scan_logs, append, save_scan_logs
update_scan_log_m(id, message) == [logs EXCEPT ![id] = <<message>>]
update_scan_log(id, message) == [logs EXCEPT ![id] = Append(@, message)]

CanFault == faults < MaxFaults

\* no request answered yet
NoResp == [cancel |-> 0, status |-> 0]

\* no post handed to the lead processor
NoEval == <<>>

\* the other programs of the repository, which share no state with the scan
\* service, and their state while they do not run
aux == <<lr, ds, cm>>
NotRun == <<>>

Init ==
    /\ store = [s \in ScanIds |-> NoRec]
    /\ logs = [s \in ScanIds |-> <<>>]
    /\ leads = <<>>
    /\ active_scans = {}
    /\ params = [s \in ScanIds |-> NoParams]
    /\ rpc = [s \in ScanIds |-> "none"]
    /\ rdata = [s \in ScanIds |-> NoRec]
    /\ wpc = [s \in ScanIds |-> "idle"]
    /\ w = [s \in ScanIds |-> NoLocals]
    /\ cpc = [s \in ScanIds |-> "idle"]
    /\ cdata = [s \in ScanIds |-> NoRec]
    /\ faults = 0
    /\ resp = [s \in ScanIds |-> NoResp]
    /\ lp = NoEval
    /\ lr = NotRun /\ ds = NotRun /\ cm = NotRun
    /\ hist = [s \in ScanIds |-> NoHist]

(***************************************************************************)
(* POST /scan: routes.start_scan, then LinkedInScraper.start_scan_async.   *)
(***************************************************************************)
\* start_scan up to storage_service.save_scan(scan_id, scan_config)
StartScan(s) ==
    /\ rpc[s] = "none"
    /\ \E p \in Params :
        /\ params' = [params EXCEPT ![s] = p]
        /\ IF p.location = ""
           THEN /\ rpc' = [rpc EXCEPT ![s] = "rejected"]
                /\ store' = store
           ELSE /\ rpc' = [rpc EXCEPT ![s] = "saved"]
                /\ store' = save_scan(s, NewScan)
    /\ UNCHANGED <<aux, lp, resp, logs, leads, active_scans, rdata, wpc, w, cpc, cdata, faults, hist>>

\* start_scan_async: scan_data = self.storage_service.get_scan(scan_id)
AsyncGet(s) ==
    /\ rpc[s] = "saved"
    /\ rdata' = [rdata EXCEPT ![s] = get_scan(s)]
    /\ rpc' = [rpc EXCEPT ![s] = "got"]
    /\ UNCHANGED <<aux, lp, resp, store, logs, leads, active_scans, params, wpc, w, cpc,
                   cdata, faults, hist>>

\* start_scan_async: status = 'in_progress', save_scan, thread.start()
AsyncSave(s) ==
    /\ rpc[s] = "got"
    /\ store' = save_scan(s, StartRecord(rdata[s]))
    /\ rdata' = [rdata EXCEPT ![s] = NoRec]
    /\ wpc' = [wpc EXCEPT ![s] = "begin"]
    /\ rpc' = [rpc EXCEPT ![s] = "started"]
    /\ UNCHANGED <<aux, lp, resp, logs, leads, active_scans, params, w, cpc, cdata, faults, hist>>

\* start_scan_async: self.active_scans[scan_id] = thread; the route returns
AsyncRegister(s) ==
    /\ rpc[s] = "started"
    /\ active_scans' = active_scans \cup {s}
    /\ rpc' = [rpc EXCEPT ![s] = "returned"]
    /\ UNCHANGED <<aux, lp, resp, store, logs, leads, params, rdata, wpc, w, cpc, cdata, faults, hist>>

\* a storage call of the request raises: the route answers 500
StartFault(s) ==
    /\ rpc[s] \in {"saved", "got"}
    /\ CanFault
    /\ faults' = faults + 1
    /\ rpc' = [rpc EXCEPT ![s] = "error"]
    /\ rdata' = [rdata EXCEPT ![s] = NoRec]
    /\ UNCHANGED <<aux, lp, resp, store, logs, leads, active_scans, params, wpc, w, cpc,
                   cdata, hist>>

(***************************************************************************)
(* POST /scan/<id>/cancel: routes.cancel_scan.                             *)
(***************************************************************************)
\* scan_data = get_scan(scan_id); 404 when absent, 400 when not cancellable
CancelGet(s) ==
    /\ cpc[s] = "idle"
    /\ LET scan_data == get_scan(s) IN
        IF cancel_scan_response(scan_data) # 200
        THEN UNCHANGED <<cpc, cdata>>    \* answered 404 or 400
        ELSE /\ cpc' = [cpc EXCEPT ![s] = "got"]
             /\ cdata' = [cdata EXCEPT ![s] = scan_data]
    /\ UNCHANGED <<aux, lp, resp, store, logs, leads, active_scans, params, rpc, rdata, wpc,
                   w, faults, hist>>

\* scan_data['status'] = 'cancelled'; save_scan; linkedin_scraper.cancel_scan
\* (which only logs); 200
CancelSave(s) ==
    /\ cpc[s] = "got"
    /\ store' = save_scan(s, CancelRecord(cdata[s]))
    /\ hist' = [hist EXCEPT ![s].cancelSaved = TRUE,
                            ![s].cancelOk = @ \/ cdata[s].status = "in_progress"]
    /\ cpc' = [cpc EXCEPT ![s] = "idle"]
    /\ cdata' = [cdata EXCEPT ![s] = NoRec]
    /\ UNCHANGED <<aux, lp, resp, logs, leads, active_scans, params, rpc, rdata, wpc, w, faults>>

\* save_scan raises in cancel_scan: 500, nothing stored
CancelFault(s) ==
    /\ cpc[s] = "got"
    /\ CanFault
    /\ faults' = faults + 1
    /\ cpc' = [cpc EXCEPT ![s] = "idle"]
    /\ cdata' = [cdata EXCEPT ![s] = NoRec]
    /\ UNCHANGED <<aux, lp, resp, store, logs, leads, active_scans, params, rpc, rdata, wpc,
                   w, hist>>

(***************************************************************************)
(* The worker thread: LinkedInScraper.run_scan.                            *)
(***************************************************************************)
\* what no step of the worker touches
WorkerFrame ==
    <<active_scans, params, rpc, rdata, cpc, cdata, resp, lp, aux>>

\* position after the per-company body: next company or complete_scan
AfterCompany(i, n) == IF i < n THEN "check" ELSE "comp_get"

\* update_scan_log("Starting scan ..."), the get_scan whose result is unused,
\* and the call of update_scan_progress(scan_id, 10, ...)
Begin(s) ==
    /\ wpc[s] = "begin"
    /\ logs' = update_scan_log(s, "start")
    /\ w' = [w EXCEPT ![s].progress = ProgressBase, ![s].ret = "c_get"]
    /\ wpc' = [wpc EXCEPT ![s] = "p_get"]
    /\ UNCHANGED <<store, leads, faults, hist>>
    /\ UNCHANGED WorkerFrame

\* update_scan_progress: scan_data = get_scan(scan_id); update_scan_log(message)
ProgressGet(s) ==
    /\ wpc[s] = "p_get"
    /\ LET scan_data == get_scan(s) IN
        IF scan_data = NoRec
        THEN /\ wpc' = [wpc EXCEPT ![s] = w[s].ret]
             /\ UNCHANGED <<w, logs>>
        ELSE /\ w' = [w EXCEPT ![s].scan_data = scan_data]
             /\ logs' = update_scan_log(s, "progress")
             /\ wpc' = [wpc EXCEPT ![s] = "p_save"]
    /\ UNCHANGED <<store, leads, faults, hist>>
    /\ UNCHANGED WorkerFrame

\* update_scan_progress: scan_data['progress'] = progress; save_scan
ProgressSave(s) ==
    /\ wpc[s] = "p_save"
    /\ store' = save_scan(s, [w[s].scan_data EXCEPT !.progress = w[s].progress])
    /\ w' = [w EXCEPT ![s].scan_data = NoRec]
    /\ wpc' = [wpc EXCEPT ![s] = w[s].ret]
    /\ UNCHANGED <<logs, leads, faults, hist>>
    /\ UNCHANGED WorkerFrame

\* companies = find_companies_in_location(...); scan_data = get_scan(scan_id).
\* The length of the list is an input: the mock returns 50 + hash(location) % 100
\* companies, the model any number up to MaxCompanies.
CompaniesGet(s) ==
    /\ wpc[s] = "c_get"
    /\ \E n \in 0..MaxCompanies :
        w' = [w EXCEPT ![s].n = n, ![s].scan_data = get_scan(s)]
    /\ wpc' = [wpc EXCEPT ![s] = "c_save"]
    /\ UNCHANGED <<store, logs, leads, faults, hist>>
    /\ UNCHANGED WorkerFrame

\* scan_data['stats']['companies'] = len(companies); save_scan
CompaniesSave(s) ==
    /\ wpc[s] = "c_save"
    /\ store' = save_scan(s, [w[s].scan_data EXCEPT !.companies = w[s].n])
    /\ w' = [w EXCEPT ![s].scan_data = NoRec]
    /\ wpc' = [wpc EXCEPT ![s] = "check0"]
    /\ UNCHANGED <<logs, leads, faults, hist>>
    /\ UNCHANGED WorkerFrame

\* check_if_scan_cancelled: True when the record is absent or cancelled,
\* False when it is not or when get_scan raises
check_if_scan_cancelled(s, raises) ==
    IF raises THEN FALSE
    ELSE get_scan(s) = NoRec \/ get_scan(s).status = "cancelled"

\* "return" of run_scan when the check says cancelled: the thread ends
CancelSeen_m == "comp_get"
CancelSeen == "done"

\* the check before the loop: if self.check_if_scan_cancelled(scan_id): return
CheckBeforeLoop(s) ==
    /\ wpc[s] = "check0"
    /\ \E raises \in {FALSE, CanFault} :
        /\ faults' = IF raises THEN faults + 1 ELSE faults
        /\ wpc' = [wpc EXCEPT ![s] =
                      IF check_if_scan_cancelled(s, raises) THEN CancelSeen
                      ELSE AfterCompany(0, w[s].n)]
    /\ UNCHANGED <<store, logs, leads, w, hist>>
    /\ UNCHANGED WorkerFrame

\* loop head: the per-company check, progress = ..., update_scan_log(...)
CheckInLoop(s) ==
    /\ wpc[s] = "check"
    /\ \E raises \in {FALSE, CanFault} :
        /\ faults' = IF raises THEN faults + 1 ELSE faults
        /\ IF check_if_scan_cancelled(s, raises)
           THEN /\ wpc' = [wpc EXCEPT ![s] = CancelSeen]
                /\ UNCHANGED <<w, logs>>
           ELSE /\ w' = [w EXCEPT ![s].progress = Progress(w[s].i, w[s].n)]
                /\ logs' = update_scan_log(s, "company")
                /\ wpc' = [wpc EXCEPT ![s] = "extract"]
    /\ UNCHANGED <<store, leads, hist>>
    /\ UNCHANGED WorkerFrame

\* milestone_posts = self.find_company_milestones(company, days_back, types)
Extract(s) ==
    /\ wpc[s] = "extract"
    /\ \E ps \in PostLists :
        /\ ps = <<>> \/ ~ExtractorRaises(params[s])
        /\ w' = [w EXCEPT ![s].posts = ps, ![s].ret = "s_get"]
        /\ wpc' = [wpc EXCEPT ![s] = IF ps = <<>> THEN "p_get" ELSE "posts"]
        /\ hist' = [hist EXCEPT
                      ![s].extAfterCancel = IF hist[s].cancelOk THEN @ + 1 ELSE @,
                      ![s].returned = @ + Len(ps),
                      ![s].meeting = @ + CountMeeting(ps)]
    /\ UNCHANGED <<store, logs, leads, faults>>
    /\ UNCHANGED WorkerFrame

\* find_company_milestones raises (IndexError / ValueError): run_scan's handler
ExtractRaise(s) ==
    /\ wpc[s] = "extract"
    /\ ExtractorRaises(params[s])
    /\ wpc' = [wpc EXCEPT ![s] = "fail_get"]
    /\ hist' = [hist EXCEPT
                  ![s].extAfterCancel = IF hist[s].cancelOk THEN @ + 1 ELSE @,
                  ![s].raised = TRUE]
    /\ UNCHANGED <<store, logs, leads, w, faults>>
    /\ UNCHANGED WorkerFrame

\* the lead dictionary built in run_scan
NewLead(s, lead_id, company, score) ==
    [id |-> lead_id, scan_id |-> s, company |-> company, score |-> score]

\* one iteration of "for post in milestone_posts"; after the last one, the
\* call of update_scan_progress(scan_id, progress, ...)
ProcessPost(s) ==
    /\ wpc[s] = "posts"
    /\ LET post == Head(w[s].posts)
           lead_id == LeadId(s, w[s].total_leads)
       IN
        /\ IF Accept(post)
           THEN /\ leads' = save_lead(lead_id, NewLead(s, lead_id, w[s].i, post))
                /\ w' = [w EXCEPT ![s].total_posts = @ + 1,
                                  ![s].total_leads = @ + 1,
                                  ![s].posts = Tail(@)]
                /\ hist' = [hist EXCEPT
                              ![s].saved = @ + 1,
                              ![s].leadAfterCancel =
                                  @ \/ hist[s].extAfterCancel > 1]
           ELSE /\ w' = [w EXCEPT ![s].total_posts = @ + 1,
                                  ![s].posts = Tail(@)]
                /\ UNCHANGED <<leads, hist>>
        /\ wpc' = [wpc EXCEPT ![s] =
                      IF Tail(w[s].posts) = <<>> THEN "p_get" ELSE "posts"]
    /\ UNCHANGED <<store, logs, faults>>
    /\ UNCHANGED WorkerFrame

\* the stats update of the loop: scan_data = get_scan(scan_id)
StatsGet(s) ==
    /\ wpc[s] = "s_get"
    /\ w' = [w EXCEPT ![s].scan_data = get_scan(s)]
    /\ wpc' = [wpc EXCEPT ![s] = "s_save"]
    /\ UNCHANGED <<store, logs, leads, faults, hist>>
    /\ UNCHANGED WorkerFrame

\* stats posts/leads = totals; save_scan; sleep; next i
StatsSave(s) ==
    /\ wpc[s] = "s_save"
    /\ store' = save_scan(s, SetStats(w[s].scan_data, w[s].total_posts,
                                      w[s].total_leads))
    /\ w' = [w EXCEPT ![s].scan_data = NoRec, ![s].i = @ + 1]
    /\ wpc' = [wpc EXCEPT ![s] = AfterCompany(w[s].i + 1, w[s].n)]
    /\ UNCHANGED <<logs, leads, faults, hist>>
    /\ UNCHANGED WorkerFrame

\* complete_scan: scan_data = get_scan(scan_id); return when absent
CompleteGet(s) ==
    /\ wpc[s] = "comp_get"
    /\ LET scan_data == get_scan(s) IN
        IF scan_data = NoRec
        THEN /\ wpc' = [wpc EXCEPT ![s] = "done"]
             /\ w' = w
        ELSE /\ w' = [w EXCEPT ![s].scan_data = scan_data]
             /\ wpc' = [wpc EXCEPT ![s] = "comp_save"]
    /\ UNCHANGED <<store, logs, leads, faults, hist>>
    /\ UNCHANGED WorkerFrame

\* complete_scan: status = 'completed', progress = 100, stats; save_scan
CompleteSave(s) ==
    /\ wpc[s] = "comp_save"
    /\ store' = save_scan(s, [w[s].scan_data EXCEPT
                                 !.status = "completed",
                                 !.progress = ProgressDone,
                                 !.posts = w[s].total_posts,
                                 !.leads = w[s].total_leads])
    /\ w' = [w EXCEPT ![s].scan_data = NoRec]
    /\ wpc' = [wpc EXCEPT ![s] = "comp_end"]
    /\ UNCHANGED <<logs, leads, faults, hist>>
    /\ UNCHANGED WorkerFrame

\* complete_scan: update_scan_log, del self.active_scans[scan_id]
CompleteEnd(s) ==
    /\ wpc[s] = "comp_end"
    /\ logs' = update_scan_log(s, "completed")
    /\ active_scans' = active_scans \ {s}
    /\ wpc' = [wpc EXCEPT ![s] = "done"]
    /\ UNCHANGED <<aux, lp, resp, store, leads, params, rpc, rdata, w, cpc, cdata, faults, hist>>

\* fail_scan: scan_data = get_scan(scan_id); return when absent
FailGet(s) ==
    /\ wpc[s] = "fail_get"
    /\ LET scan_data == get_scan(s) IN
        IF scan_data = NoRec
        THEN /\ wpc' = [wpc EXCEPT ![s] = "done"]
             /\ w' = w
        ELSE /\ w' = [w EXCEPT ![s].scan_data = scan_data]
             /\ wpc' = [wpc EXCEPT ![s] = "fail_save"]
    /\ UNCHANGED <<store, logs, leads, faults, hist>>
    /\ UNCHANGED WorkerFrame

\* fail_scan: status = 'failed', error = error_message; save_scan
FailSave(s) ==
    /\ wpc[s] = "fail_save"
    /\ store' = save_scan(s, FailRecord(w[s].scan_data))
    /\ w' = [w EXCEPT ![s].scan_data = NoRec]
    /\ wpc' = [wpc EXCEPT ![s] = "fail_end"]
    /\ UNCHANGED <<logs, leads, faults, hist>>
    /\ UNCHANGED WorkerFrame

\* fail_scan: update_scan_log, del self.active_scans[scan_id]
FailEnd(s) ==
    /\ wpc[s] = "fail_end"
    /\ logs' = update_scan_log(s, "failed")
    /\ active_scans' = active_scans \ {s}
    /\ wpc' = [wpc EXCEPT ![s] = "done"]
    /\ UNCHANGED <<aux, lp, resp, store, leads, params, rpc, rdata, w, cpc, cdata, faults, hist>>

(***************************************************************************)
(* Storage calls of the worker that raise.                                 *)
(***************************************************************************)
\* in run_scan's own body (the unused get_scan, the stats reads and writes,
\* save_lead): the exception reaches "except Exception" and fail_scan runs
RunScanFault(s) ==
    /\ \/ wpc[s] \in {"begin", "c_get", "c_save", "s_get", "s_save"}
       \/ wpc[s] = "posts" /\ Accept(Head(w[s].posts))
    /\ CanFault
    /\ faults' = faults + 1
    /\ logs' = IF wpc[s] = "begin" THEN update_scan_log(s, "start") ELSE logs
    /\ w' = [w EXCEPT ![s].scan_data = NoRec]
    /\ wpc' = [wpc EXCEPT ![s] = "fail_get"]
    /\ hist' = [hist EXCEPT ![s].raised = TRUE]
    /\ UNCHANGED <<store, leads>>
    /\ UNCHANGED WorkerFrame

\* in update_scan_progress: logged, the function returns
ProgressFault(s) ==
    /\ wpc[s] \in {"p_get", "p_save"}
    /\ CanFault
    /\ faults' = faults + 1
    /\ w' = [w EXCEPT ![s].scan_data = NoRec]
    /\ wpc' = [wpc EXCEPT ![s] = w[s].ret]
    /\ UNCHANGED <<store, logs, leads, hist>>
    /\ UNCHANGED WorkerFrame

\* in complete_scan or fail_scan: logged, the function returns, the thread ends
FinishFault(s) ==
    /\ wpc[s] \in {"comp_get", "comp_save", "fail_get", "fail_save"}
    /\ CanFault
    /\ faults' = faults + 1
    /\ w' = [w EXCEPT ![s].scan_data = NoRec]
    /\ wpc' = [wpc EXCEPT ![s] = "done"]
    /\ UNCHANGED <<store, logs, leads, hist>>
    /\ UNCHANGED WorkerFrame

Worker(s) ==
    \/ Begin(s) \/ ProgressGet(s) \/ ProgressSave(s)
    \/ CompaniesGet(s) \/ CompaniesSave(s)
    \/ CheckBeforeLoop(s) \/ CheckInLoop(s)
    \/ Extract(s) \/ ExtractRaise(s) \/ ProcessPost(s)
    \/ StatsGet(s) \/ StatsSave(s)
    \/ CompleteGet(s) \/ CompleteSave(s) \/ CompleteEnd(s)
    \/ FailGet(s) \/ FailSave(s) \/ FailEnd(s)
    \/ RunScanFault(s) \/ ProgressFault(s) \/ FinishFault(s)

Request(s) ==
    \/ StartScan(s) \/ AsyncGet(s) \/ AsyncSave(s) \/ AsyncRegister(s)
    \/ StartFault(s)

Cancel(s) == CancelGet(s) \/ CancelSave(s) \/ CancelFault(s)

Next == \E s \in ScanIds : Request(s) \/ Worker(s) \/ Cancel(s)

Spec == Init /\ [][Next]_vars

(***************************************************************************)
(* The cancel and the status route on a system at rest: no worker and no   *)
(* other request is running, each request runs from its get_scan to its    *)
(* answer in one step.  The scan log and the history of the run, which the *)
(* two routes never read, are left empty.                                  *)
(***************************************************************************)
\* the records a scan can have left behind when its worker has exited: any
\* completed record, and the records of a scan that stopped before its first
\* post (cancelled, failed, or left in_progress by a failed save)
RestRecords ==
    { [status |-> "completed", progress |-> ProgressDone, companies |-> n,
       posts |-> np, leads |-> nl, error |-> FALSE] :
          n \in 0..MaxCompanies, np \in 0..(MaxCompanies * MaxPosts),
          nl \in 0..(MaxCompanies * MaxPosts) } \cup
    { [status |-> st, progress |-> ProgressBase, companies |-> n,
       posts |-> 0, leads |-> 0, error |-> (st = "failed")] :
          st \in {"in_progress", "failed", "cancelled"}, n \in 0..MaxCompanies }

\* the leads of a scan that saved nl of them, one per company
RestLeads(s, nl) ==
    [k \in { LeadId(s, n) : n \in 0..(nl - 1) } |->
        LET n == CHOOSE n \in 0..(nl - 1) : LeadId(s, n) = k
        IN NewLead(s, k, n, AcceptThreshold)]

ScanAtRest ==
    /\ logs = [s \in ScanIds |-> <<>>]
    /\ rdata = [s \in ScanIds |-> NoRec]
    /\ w = [s \in ScanIds |-> NoLocals]
    /\ cpc = [s \in ScanIds |-> "idle"]
    /\ cdata = [s \in ScanIds |-> NoRec]
    /\ faults = 0
    /\ resp = [s \in ScanIds |-> NoResp]
    /\ hist = [s \in ScanIds |-> NoHist]
    /\ \E s \in ScanIds :
        \/ \* no scan was started
           /\ store = [x \in ScanIds |-> NoRec]
           /\ params = [x \in ScanIds |-> NoParams]
           /\ rpc = [x \in ScanIds |-> "none"]
           /\ wpc = [x \in ScanIds |-> "idle"]
           /\ leads = <<>>
           /\ active_scans = {}
        \/ \* the start request failed after it had saved the pending record
           /\ store = [x \in ScanIds |-> NewScan]
           /\ \E p \in Params :
                 p.location # "" /\ params = [x \in ScanIds |-> p]
           /\ rpc = [x \in ScanIds |-> "error"]
           /\ wpc = [x \in ScanIds |-> "idle"]
           /\ leads = <<>>
           /\ active_scans = {}
        \/ \* the worker has exited
           /\ \E rec \in RestRecords :
                 /\ rec.leads <= rec.posts
                 /\ rec.posts <= rec.companies * MaxPosts
                 /\ store = [x \in ScanIds |-> rec]
                 /\ leads = RestLeads(s, rec.leads)
           /\ \E p \in Params :
                 /\ ~Malformed(p) /\ ~ExtractorRaises(p)
                 /\ params = [x \in ScanIds |-> p]
           /\ rpc = [x \in ScanIds |-> "returned"]
           /\ wpc = [x \in ScanIds |-> "done"]
           /\ active_scans \in SUBSET ScanIds

InitRoutes ==
    /\ ScanAtRest
    /\ lp = NoEval
    /\ lr = NotRun /\ ds = NotRun /\ cm = NotRun

\* POST /scan/<id>/cancel, from get_scan to the answer
CancelRequest(s) ==
    /\ wpc[s] \in {"idle", "done"} /\ cpc[s] = "idle"
    /\ LET scan_data == get_scan(s)
           code == cancel_scan_response(scan_data)
       IN
        /\ store' = IF code = 200 THEN save_scan(s, CancelRecord(scan_data))
                    ELSE store
        /\ resp' = [resp EXCEPT ![s].cancel = code]
    /\ UNCHANGED <<aux, lp, logs, leads, active_scans, params, rpc, rdata, wpc, w,
                   cpc, cdata, faults, hist>>

\* GET /scan/<id>/status, from get_scan to the answer
StatusRequest(s) ==
    /\ resp' = [resp EXCEPT ![s].status = get_scan_status_response(get_scan(s))]
    /\ UNCHANGED <<aux, lp, store, logs, leads, active_scans, params, rpc, rdata,
                   wpc, w, cpc, cdata, faults, hist>>

NextRoutes == \E s \in ScanIds : CancelRequest(s) \/ StatusRequest(s)

SpecRoutes == InitRoutes /\ [][NextRoutes]_vars

(***************************************************************************)
(* The lead processor (modules/leads.py): process_posts, _filter_lead and  *)
(* _score_lead at work on one post.  Strings that the code searches are    *)
(* sequences of characters.  Times are whole days; datetime.now() is a     *)
(* reading of the wall clock taken inside the functions.  Scores are kept  *)
(* in halves of a point until they are rounded.                            *)
(***************************************************************************)
BaseScore == 50
DefaultRelevance == 50
RecencyMax == 15
ScoreCap == 100
DefaultScore == 50
DefaultMaxSize == 1000000

\* calls made per post (process_posts, _score_lead)
MaxCalls == 2

\* entities.get('location'): nothing, or a place
LeadLocations == { <<>>, <<"N", "Y", "C">> }
\* search_params['location']: a list of strings
SearchLocations == { <<>>, << <<"n", "y">> >>, << <<"l", "a">> >> }
\* post['created_at']: None, or a day (<<d>>), which can lie after the
\* reading of the clock; and the readings of datetime.now(), in days
CreatedAt == { <<>>, <<0>>, <<29>>, <<32>> }
Clock == {30, 31}
\* what nlp.score_lead_relevance does: it raises, or it returns a dict
\* without or with a relevance_score
Analyses ==
    { [kind |-> k, relevance_score |-> 0] : k \in {"raise", "missing"} } \cup
    { [kind |-> "value", relevance_score |-> r] : r \in {-200, 0, 41, 150} }

\* search_params.get('company_size') is empty
NoSizeFilter == [given |-> FALSE, min |-> 0, max |-> DefaultMaxSize]

LeadInputs ==
    [location : LeadLocations, created_at : CreatedAt,
     seniority_level : {"executive", "unknown"}, company_size : {0, 600},
     milestone_type : {"funding", "award"}]

\* milestone_types is the requested set of the search; no function of the
\* lead processor reads it
SearchParams ==
    [location : SearchLocations, max_age_days : {0, 30},
     seniority_levels : { <<>>, <<"executive", "senior">> },
     company_size : { NoSizeFilter, [given |-> TRUE, min |-> 50, max |-> 500] },
     milestone_types : { <<"funding">> }]

Max(a, b) == IF a >= b THEN a ELSE b
Min(a, b) == IF a <= b THEN a ELSE b
InList(x, l) == \E i \in DOMAIN l : l[i] = x

\* str.lower()
lower(str) ==
    [i \in DOMAIN str |->
        CASE str[i] = "N" -> "n" [] str[i] = "Y" -> "y" [] str[i] = "C" -> "c"
          [] OTHER -> str[i]]

\* sub in str
Contains(sub, str) ==
    \E i \in 0..(Len(str) - Len(sub)) : SubSeq(str, i + 1, i + Len(sub)) = sub

\* round(n / 4): Python rounds a tie to the even neighbour
round4(n) ==
    LET q == n \div 4
        r == n % 4
    IN IF r < 2 THEN q
       ELSE IF r > 2 THEN q + 1
       ELSE IF q % 2 = 0 THEN q ELSE q + 1

seniority_scores(level) ==
    CASE level = "executive" -> 20
      [] level = "senior" -> 15
      [] level = "mid" -> 10
      [] level = "entry" -> 5
      [] OTHER -> 0

\* _filter_lead, with now the reading of datetime.now() at line 109
_filter_lead_m(lead, search_params, now) ==
    IF /\ search_params.location # <<>>
       /\ ~\E i \in DOMAIN search_params.location :
              Contains(lower(search_params.location[i]), lower(lead.location))
    THEN FALSE
    ELSE IF /\ search_params.max_age_days # 0 /\ lead.created_at # <<>>
            /\ now - lead.created_at[1] > search_params.max_age_days
    THEN FALSE
    ELSE IF /\ search_params.seniority_levels # <<>>
            /\ lead.seniority_level \notin {"", "unknown"}
            /\ ~InList(lead.seniority_level, search_params.seniority_levels)
    THEN FALSE
    ELSE IF /\ search_params.company_size.given
            /\ ~ /\ search_params.company_size.min <= lead.company_size
                 /\ lead.company_size <= search_params.company_size.max
    THEN FALSE
    ELSE TRUE
_filter_lead(lead, search_params, now) ==
    IF /\ search_params.location # <<>> /\ lead.location # <<>>
       /\ ~\E i \in DOMAIN search_params.location :
              Contains(lower(search_params.location[i]), lower(lead.location))
    THEN FALSE
    ELSE IF /\ search_params.max_age_days # 0 /\ lead.created_at # <<>>
            /\ now - lead.created_at[1] > search_params.max_age_days
    THEN FALSE
    ELSE IF /\ search_params.seniority_levels # <<>>
            /\ lead.seniority_level # ""
            /\ ~InList(lead.seniority_level, search_params.seniority_levels)
    THEN FALSE
    ELSE IF /\ search_params.company_size.given /\ lead.company_size # 0
            /\ ~ /\ search_params.company_size.min <= lead.company_size
                 /\ lead.company_size <= search_params.company_size.max
    THEN FALSE
    ELSE TRUE

\* the recency bonus of _score_lead, in halves of a point:
\* max(0, 15 - (age_days / 2))
recency_score(age_days) == Max(0, 2 * RecencyMax - age_days)

\* _score_lead, with now the reading of datetime.now() at line 153
_score_lead(lead, analysis, now) ==
    IF analysis.kind = "raise" THEN DefaultScore
    ELSE
        LET relevance_score ==
                IF analysis.kind = "missing" THEN DefaultRelevance
                ELSE analysis.relevance_score
            \* in halves of a point
            recency ==
                IF lead.created_at # <<>>
                THEN recency_score(now - lead.created_at[1]) ELSE 0
            score == 2 * BaseScore + recency
                        + 2 * seniority_scores(lead.seniority_level)
        IN Min(round4(score + 2 * relevance_score), ScoreCap)

InitLeads ==
    /\ store = [s \in ScanIds |-> NoRec]
    /\ logs = [s \in ScanIds |-> <<>>]
    /\ leads = <<>>
    /\ active_scans = {}
    /\ params = [s \in ScanIds |-> NoParams]
    /\ rpc = [s \in ScanIds |-> "none"]
    /\ rdata = [s \in ScanIds |-> NoRec]
    /\ wpc = [s \in ScanIds |-> "idle"]
    /\ w = [s \in ScanIds |-> NoLocals]
    /\ cpc = [s \in ScanIds |-> "idle"]
    /\ cdata = [s \in ScanIds |-> NoRec]
    /\ faults = 0
    /\ resp = [s \in ScanIds |-> NoResp]
    /\ hist = [s \in ScanIds |-> NoHist]
    /\ lr = NotRun /\ ds = NotRun /\ cm = NotRun
    /\ \E lead \in LeadInputs, search_params \in SearchParams,
          analysis \in Analyses, now \in Clock :
          lp = [lead |-> lead, search_params |-> search_params,
                analysis |-> analysis, now |-> now, out |-> <<>>,
                scores |-> <<>>, recency |-> <<>>]

LeadsFrame ==
    <<store, logs, leads, active_scans, params, rpc, rdata, wpc, w, cpc, cdata,
      faults, resp, hist, aux>>

\* process_posts, one pass of its loop for a post that is a milestone: the
\* filter reads the clock, then the scoring reads it again
process_posts ==
    /\ Len(lp.out) < MaxCalls
    /\ \E now1 \in Clock, now2 \in Clock :
        /\ lp.now <= now1 /\ now1 <= now2
        /\ LET accept == _filter_lead(lp.lead, lp.search_params, now1)
               relevance_score ==
                   IF accept THEN _score_lead(lp.lead, lp.analysis, now2) ELSE 0
           IN lp' = [lp EXCEPT
                        !.out = Append(@, [accept |-> accept,
                                           relevance_score |-> relevance_score,
                                           now |-> now1]),
                        !.now = IF accept THEN now2 ELSE now1]
    /\ UNCHANGED LeadsFrame

\* a call of _score_lead; recency keeps the age and the bonus of each call
\* that reached line 155
ScoreLead ==
    /\ Len(lp.scores) < MaxCalls
    /\ \E now \in Clock :
        /\ lp.now <= now
        /\ lp' = [lp EXCEPT
                     !.scores = Append(@, _score_lead(lp.lead, lp.analysis, now)),
                     !.recency =
                         IF /\ lp.analysis.kind # "raise"
                            /\ lp.lead.created_at # <<>>
                         THEN LET age_days == now - lp.lead.created_at[1]
                              IN Append(@, [age_days |-> age_days,
                                            recency_score |->
                                                recency_score(age_days)])
                         ELSE @,
                     !.now = now]
    /\ UNCHANGED LeadsFrame

NextLeads == process_posts \/ ScoreLead

SpecLeads == InitLeads /\ [][NextLeads]_vars

(***************************************************************************)
(* The lead routes (api/routes.py): GET /leads/<id> (get_lead_details,     *)
(* which calls LeadAnalyzer.analyze_lead) and POST /leads/<id>/favorite    *)
(* (favorite_lead), as request threads that interleave at their storage    *)
(* calls, on the leads of a completed scan.  A lead is a dict: a function  *)
(* from its keys; a request's lead is its own copy of the stored one.      *)
(***************************************************************************)
\* favorite requests made
MaxFav == 2

Users == {"alice", "bob"}
\* the ids the requests ask for: leads of the scan, stored or not
TargetIds == { LeadId(s, n) : s \in ScanIds, n \in 0..1 }
\* the keys run_scan gives a lead
WorkerKeys == DOMAIN NewLead("", "", 0, 0)

\* storage service: get_lead
get_lead(id) == IF id \in DOMAIN leads THEN leads[id] ELSE NoRec

\* lead[key] = value
SetKey(lead, key, value) ==
    [k \in DOMAIN lead \cup {key} |-> IF k = key THEN value ELSE lead[k]]

\* lead['analysis'] = ...
WithAnalysis_m(lead, result) ==
    [SetKey(lead, "analysis", result) EXCEPT !["score"] = 0]
WithAnalysis(lead, result) == SetKey(lead, "analysis", result)

\* if 'favorites' not in lead: lead['favorites'] = []
\* if user not in lead['favorites']: lead['favorites'].append(user)
WithFavorite(lead, user) ==
    LET favorites ==
            IF "favorites" \in DOMAIN lead THEN lead["favorites"] ELSE <<>>
    IN SetKey(lead, "favorites",
              IF InList(user, favorites) THEN favorites
              ELSE Append(favorites, user))

NoRequest == [pc |-> "idle", id |-> "", user |-> "", lead |-> NoRec]

InitLeadRoutes ==
    /\ ScanAtRest
    /\ \A s \in ScanIds :
          /\ store[s].status = "completed"
          /\ store[s].companies = MaxCompanies
          /\ store[s].posts = MaxCompanies * MaxPosts
    /\ active_scans = {}
    /\ lp = NoEval /\ ds = NotRun /\ cm = NotRun
    /\ lr = [details |-> [pc |-> "idle", id |-> "", lead |-> NoRec,
                          result |-> ""],
             favorite |-> [r \in 1..MaxFav |-> NoRequest],
             favored |-> {}]

LeadRoutesFrame ==
    <<store, logs, active_scans, params, rpc, rdata, wpc, w, cpc, cdata,
      faults, resp, hist, lp, ds, cm>>

\* get_lead_details: get_lead, the 404 answer, the test for an analysis
DetailsGet(id) ==
    /\ lr.details.pc = "idle"
    /\ LET lead == get_lead(id)
       IN lr' = [lr EXCEPT !.details =
                    IF lead = NoRec \/ "analysis" \in DOMAIN lead
                    THEN [@ EXCEPT !.pc = "done", !.id = id]
                    ELSE [@ EXCEPT !.pc = "got", !.id = id, !.lead = lead]]
    /\ UNCHANGED leads
    /\ UNCHANGED LeadRoutesFrame

\* analyze_lead: it sets the analysis on the caller's lead and saves it, or
\* it raises before that and returns its error text
DetailsAnalyze ==
    /\ lr.details.pc = "got"
    /\ \/ LET lead == WithAnalysis(lr.details.lead, "analysis")
          IN /\ leads' = save_lead(lead["id"], lead)
             /\ lr' = [lr EXCEPT !.details.pc = "analyzed",
                                 !.details.lead = lead,
                                 !.details.result = "analysis"]
       \/ /\ lr' = [lr EXCEPT !.details.pc = "analyzed",
                              !.details.result = "error"]
          /\ UNCHANGED leads
    /\ UNCHANGED LeadRoutesFrame

\* get_lead_details: lead['analysis'] = ..., save_lead, the answer
DetailsSave ==
    /\ lr.details.pc = "analyzed"
    /\ LET lead == WithAnalysis(lr.details.lead, lr.details.result)
       IN /\ leads' = save_lead(lr.details.id, lead)
          /\ lr' = [lr EXCEPT !.details.pc = "done", !.details.lead = lead]
    /\ UNCHANGED LeadRoutesFrame

\* favorite_lead: get_lead, the 404 answer
FavoriteGet(r, user, id) ==
    /\ lr.favorite[r].pc = "idle"
    /\ LET lead == get_lead(id)
       IN lr' = [lr EXCEPT !.favorite[r] =
                    IF lead = NoRec
                    THEN [@ EXCEPT !.pc = "done", !.id = id, !.user = user]
                    ELSE [pc |-> "got", id |-> id, user |-> user,
                          lead |-> lead]]
    /\ UNCHANGED leads
    /\ UNCHANGED LeadRoutesFrame

\* favorite_lead: the update of the favorites, save_lead, the 200 answer
FavoriteSave(r) ==
    /\ lr.favorite[r].pc = "got"
    /\ LET lead == WithFavorite(lr.favorite[r].lead, lr.favorite[r].user)
       IN /\ leads' = save_lead(lr.favorite[r].id, lead)
          /\ lr' = [lr EXCEPT
                       !.favorite[r].pc = "done",
                       !.favorite[r].lead = lead,
                       !.favored = @ \cup {<<lr.favorite[r].id,
                                             lr.favorite[r].user>>}]
    /\ UNCHANGED LeadRoutesFrame

NextLeadRoutes ==
    \/ \E id \in TargetIds : DetailsGet(id)
    \/ DetailsAnalyze
    \/ DetailsSave
    \/ \E r \in 1..MaxFav, user \in Users, id \in TargetIds :
          FavoriteGet(r, user, id)
    \/ \E r \in 1..MaxFav : FavoriteSave(r)

SpecLeadRoutes == InitLeadRoutes /\ [][NextLeadRoutes]_vars

(***************************************************************************)
(* The file storage (src/storage.py): DataStorage.save_all_posts and       *)
(* DataStorage.save_high_value_leads, called one after the other, and the  *)
(* main file each of them updates.  An item is a dict of which the id and  *)
(* a payload are kept; the id "" stands for a missing or falsy id, the id  *)
(* "[1]" for an id that cannot be hashed.                                  *)
(***************************************************************************)
MaxBatch == 2
MaxSaves == 3

Files == {"ALL_POSTS_FILE", "LEADS_FILE"}
ItemIds == {"", "a", "b", "[1]"}
Items == [id : {"a", "b"}, text : {"x", "y"}] \cup [id : ItemIds, text : {"x"}]
Batches == UNION { [1..n -> Items] : n \in 0..MaxBatch }

NoScans ==
    /\ store = [s \in ScanIds |-> NoRec]
    /\ logs = [s \in ScanIds |-> <<>>]
    /\ leads = <<>>
    /\ active_scans = {}
    /\ params = [s \in ScanIds |-> NoParams]
    /\ rpc = [s \in ScanIds |-> "none"]
    /\ rdata = [s \in ScanIds |-> NoRec]
    /\ wpc = [s \in ScanIds |-> "idle"]
    /\ w = [s \in ScanIds |-> NoLocals]
    /\ cpc = [s \in ScanIds |-> "idle"]
    /\ cdata = [s \in ScanIds |-> NoRec]
    /\ faults = 0
    /\ resp = [s \in ScanIds |-> NoResp]
    /\ hist = [s \in ScanIds |-> NoHist]

ItemIdsOf(items) == { items[i].id : i \in 1..Len(items) }

Unhashable(item_id) == item_id = "[1]"

\* The loop of lines 82-87 from one item on: the list and the id set after
\* it, or "raised" when the membership test of an item raises.
RECURSIVE AddNewItems(_, _, _)
AddNewItems(updated_items, existing_ids, new_items) ==
    IF new_items = <<>> THEN [raised |-> FALSE, items |-> updated_items]
    ELSE LET item_id == Head(new_items).id IN
         IF item_id = "" THEN
             AddNewItems(updated_items, existing_ids, Tail(new_items))
         ELSE IF Unhashable(item_id) THEN
             [raised |-> TRUE, items |-> updated_items]
         ELSE IF item_id \notin existing_ids THEN
             AddNewItems(Append(updated_items, Head(new_items)),
                         existing_ids \cup {item_id}, Tail(new_items))
         ELSE AddNewItems(updated_items, existing_ids, Tail(new_items))

\* The content of the main file after _update_main_file: the write of line
\* 90 is reached only when the loop did not raise.
_update_main_file_m(existing_items, new_items) ==
    LET done == AddNewItems(existing_items, {}, new_items)
    IN  IF done.raised THEN existing_items ELSE done.items
_update_main_file(existing_items, new_items) ==
    LET done == AddNewItems(existing_items, ItemIdsOf(existing_items),
                            new_items)
    IN  IF done.raised THEN existing_items ELSE done.items

\* The last call: the file it updated, the file's content before it and the
\* ids of the items it was given.
NoSave == [file |-> "", before |-> <<>>, offered |-> {}]

InitStorage ==
    /\ NoScans
    /\ lp = NoEval /\ lr = NotRun /\ cm = NotRun
    /\ ds = [main |-> [f \in Files |-> <<>>], saves |-> 0, last |-> NoSave]

StorageFrame ==
    <<store, logs, leads, active_scans, params, rpc, rdata, wpc, w, cpc, cdata,
      faults, resp, hist, lp, lr, cm>>

Saved(filename, new_items) ==
    [main |-> [ds.main EXCEPT ![filename] = _update_main_file(@, new_items)],
     saves |-> ds.saves + 1,
     last |-> [file |-> filename, before |-> ds.main[filename],
               offered |-> ItemIdsOf(new_items)]]

save_all_posts ==
    /\ ds # NotRun
    /\ ds.saves < MaxSaves
    /\ \E posts \in Batches : ds' = Saved("ALL_POSTS_FILE", posts)
    /\ UNCHANGED StorageFrame

save_high_value_leads ==
    /\ ds # NotRun
    /\ ds.saves < MaxSaves
    /\ \E new_leads \in Batches : ds' = Saved("LEADS_FILE", new_leads)
    /\ UNCHANGED StorageFrame

NextStorage == save_all_posts \/ save_high_value_leads

SpecStorage == InitStorage /\ [][NextStorage]_vars

(***************************************************************************)
(* The cloud scan (src/cloud_main.py): one call of                         *)
(* CloudMilestoneLeadGenerator.run_scan, a step per call it makes.  Lists  *)
(* are kept by their lengths.  GCPIntegration.store_blob catches its own   *)
(* exceptions: a failed upload stores nothing and raises nothing.          *)
(***************************************************************************)
MaxCloudCompanies == 2
MaxCloudPosts == 1
CompanyLimit == 50

NoResults ==
    [status |-> "started", error |-> "", companies_found |-> 0,
     total_posts_found |-> 0, leads_path |-> FALSE]

InitCloud ==
    /\ NoScans
    /\ lp = NoEval /\ lr = NotRun /\ ds = NotRun
    /\ cm = [pc |-> "maps", results |-> NoResults, companies |-> 0, i |-> 0,
             linkedin_posts |-> 0, company_posts |-> 0, driver |-> FALSE,
             blobs |-> {}, final_stored |-> FALSE, quit_called |-> FALSE]

CloudFrame ==
    <<store, logs, leads, active_scans, params, rpc, rdata, wpc, w, cpc, cdata,
      faults, resp, hist, lp, lr, ds>>

CloudAt(pc) == cm # NotRun /\ cm.pc = pc

\* gcp.store_blob(data, path): the blobs after the call
store_blob(blobs, path, uploaded) ==
    IF uploaded THEN blobs \cup {path} ELSE blobs

\* the handler of lines 131-134
CloudExcept(c) ==
    [c EXCEPT !.results.status = "error", !.results.error = "exception",
              !.pc = "final"]

\* Step 1 (lines 58-59): the search catches its own exceptions
SearchCompanies ==
    /\ CloudAt("maps")
    /\ \E n \in 0..MaxCloudCompanies :
          cm' = [cm EXCEPT !.companies = n, !.results.companies_found = n,
                           !.pc = "login"]
    /\ UNCHANGED CloudFrame

\* Step 2 (line 62), login returns True: the browser is open
Login ==
    /\ CloudAt("login")
    /\ cm' = [cm EXCEPT !.driver = TRUE, !.pc = "keywords"]
    /\ UNCHANGED CloudFrame

\* Step 2, login returns False (lines 63-65): without credentials no browser
\* was started, otherwise setup_driver has started one; line 65 returns from
\* inside the try
LoginFailed ==
    /\ CloudAt("login")
    /\ \E credentials \in BOOLEAN :
          cm' = [cm EXCEPT !.driver = credentials,
                           !.results.status = "error",
                           !.results.error = "LinkedIn login failed",
                           !.pc = "returned"]
    /\ UNCHANGED CloudFrame

\* Step 2, setup_driver raises inside login (it is outside login's try)
LoginRaises ==
    /\ CloudAt("login")
    /\ cm' = CloudExcept(cm)
    /\ UNCHANGED CloudFrame

\* Step 3 (lines 68-69)
SearchPosts ==
    /\ CloudAt("keywords")
    /\ \/ \E n \in 0..MaxCloudPosts :
             cm' = [cm EXCEPT !.linkedin_posts = n, !.pc = "company"]
       \/ cm' = CloudExcept(cm)
    /\ UNCHANGED CloudFrame

\* Step 4 (lines 73-88), one company: its posts, or an exception that the
\* loop catches
CompanyPosts ==
    /\ CloudAt("company")
    /\ cm.i < Min(cm.companies, CompanyLimit)
    /\ \E n \in 0..MaxCloudPosts :
          cm' = [cm EXCEPT !.company_posts = @ + n, !.i = @ + 1]
    /\ UNCHANGED CloudFrame

\* Step 5 (lines 90-98)
StoreRaw ==
    /\ CloudAt("company")
    /\ cm.i = Min(cm.companies, CompanyLimit)
    /\ \E uploaded \in BOOLEAN :
          LET all_posts == cm.linkedin_posts + cm.company_posts IN
          cm' = [cm EXCEPT
                    !.results.total_posts_found = all_posts,
                    !.blobs = store_blob(@, "raw_posts", uploaded),
                    !.pc = IF all_posts > 0 THEN "analyze" ELSE "complete"]
    /\ UNCHANGED CloudFrame

\* Step 6 (lines 101-124): analyze_posts raises, or the posts and the leads
\* are stored; an exception of the BigQuery load is caught
Analyze ==
    /\ CloudAt("analyze")
    /\ \/ \E uploaded \in BOOLEAN :
             cm' = [cm EXCEPT
                       !.blobs = store_blob(store_blob(@, "analyzed_posts",
                                                       uploaded),
                                            "leads", uploaded),
                       !.results.leads_path = uploaded,
                       !.pc = "complete"]
       \/ cm' = CloudExcept(cm)
    /\ UNCHANGED CloudFrame

\* lines 127-129
Complete ==
    /\ CloudAt("complete")
    /\ cm' = [cm EXCEPT !.results.status = "completed", !.pc = "final"]
    /\ UNCHANGED CloudFrame

\* line 137
StoreFinal ==
    /\ CloudAt("final")
    /\ \E uploaded \in BOOLEAN :
          cm' = [cm EXCEPT !.blobs = store_blob(@, "scan_results", uploaded),
                           !.final_stored = TRUE, !.pc = "quit"]
    /\ UNCHANGED CloudFrame

\* lines 140-145: quit, whose exceptions are passed over, then the return
Quit ==
    /\ CloudAt("quit")
    /\ cm' = [cm EXCEPT !.driver = FALSE, !.quit_called = TRUE,
                        !.pc = "returned"]
    /\ UNCHANGED CloudFrame

NextCloud ==
    \/ SearchCompanies \/ Login \/ LoginFailed \/ LoginRaises \/ SearchPosts
    \/ CompanyPosts \/ StoreRaw \/ Analyze \/ Complete \/ StoreFinal \/ Quit

SpecCloud == InitCloud /\ [][NextCloud]_vars

(***************************************************************************)
(* Properties.                                                             *)
(***************************************************************************)
Stored(s) == store[s] # NoRec
WorkerExited(s) == wpc[s] = "done"
LeadsOf(s) == { k \in DOMAIN leads : leads[k].scan_id = s }

\* the edges of the status state machine
StatusEdge(a, b) ==
    \/ a = b
    \/ a = "none" /\ b = "pending"
    \/ a = "pending" /\ b \in {"in_progress", "cancelled"}
    \/ a = "in_progress" /\ b \in {"completed", "failed", "cancelled"}

\* C1: under any interleaving of the start route, start_scan_async, the
\* worker and the cancel route, the stored status of every job changes only
\* along pending -> in_progress, in_progress -> completed | failed | cancelled
\* and pending -> cancelled, and never changes once it is completed, failed or
\* cancelled.  Stated for the runs in which no storage call raises.
C1_StatusFollowsEdges ==
    [][faults' = 0 =>
          \A s \in ScanIds : StatusEdge(store[s].status, store'[s].status)]_vars

\* C2: cancellation is never lost: once the cancel route has saved status
\* cancelled, no later save that read the record before the cancel puts the
\* stored status back to in_progress or to any other value.  Stated for the
\* runs in which no storage call raises.
C2_CancelNeverLost ==
    [][faults' = 0 =>
          \A s \in ScanIds :
              hist[s].cancelSaved /\ store[s].status = "cancelled"
                  => store'[s].status = "cancelled"]_vars

\* C3: cancellation is bounded: after the cancel route has returned success
\* for an in_progress job the worker calls find_company_milestones for at most
\* one more company and saves no lead for a later one.  Stated for the runs in
\* which no storage call raises.
C3_CancelBounded ==
    faults = 0 =>
        \A s \in ScanIds :
            hist[s].extAfterCancel <= 1 /\ ~hist[s].leadAfterCancel

\* C4: when the worker thread of a job has exited, the stored status is
\* completed, failed or cancelled, also in the runs in which a storage call
\* raised in the loop or inside complete_scan or fail_scan.
C4_ExitedIsTerminal ==
    \A s \in ScanIds : WorkerExited(s) => store[s].status \in Terminal

\* C5: from a stored record whose status is not terminal, the next stored
\* record never has a smaller progress, under any interleaving of the worker's
\* progress writes with the cancel route's read-modify-write of the record.
\* Stated for the runs in which no storage call raises.
C5_ProgressNonDecreasing ==
    [][faults' = 0 =>
          \A s \in ScanIds :
              Stored(s) /\ store[s].status \notin Terminal
                  => store'[s].progress >= store[s].progress]_vars

\* C6: in every stored record progress is in 0..100 and is 100 exactly when
\* the status is completed.
C6_ProgressRange ==
    \A s \in ScanIds :
        Stored(s) =>
            /\ store[s].progress \in 0..100
            /\ store[s].progress = 100 <=> store[s].status = "completed"

C6_Witness ==
    \E s \in ScanIds :
        /\ Stored(s) /\ store[s].status = "completed"
        /\ store[s].progress = 100
        /\ w[s].n = MaxCompanies /\ w[s].i = w[s].n

\* C7: the stored counters companies, posts and leads of a job never decrease
\* from one stored record to the next (so a cancel issued after the discovery
\* of N companies leaves companies = N).  Stated for the runs in which no
\* storage call raises.
C7_StatsNonDecreasing ==
    [][faults' = 0 =>
          \A s \in ScanIds :
              Stored(s) =>
                  /\ store'[s].companies >= store[s].companies
                  /\ store'[s].posts >= store[s].posts
                  /\ store'[s].leads >= store[s].leads]_vars

\* C8: in every stored record stats.leads <= stats.posts.
C8_LeadsAtMostPosts ==
    \A s \in ScanIds : Stored(s) => store[s].leads <= store[s].posts

C8_Witness ==
    \E s \in ScanIds :
        Stored(s) /\ store[s].leads >= 1 /\ store[s].posts > store[s].leads

\* C9: a scan that was neither cancelled nor hit by an exception ends with
\* status completed, progress 100, companies = N, posts = the number of posts
\* the extractor returned, leads = the number of those meeting the threshold
\* = the number of lead records stored for the scan.
C9_FinalRecord ==
    \A s \in ScanIds :
        WorkerExited(s) /\ ~hist[s].cancelSaved /\ ~hist[s].raised /\ faults = 0
        =>  /\ store[s].status = "completed"
            /\ store[s].progress = 100
            /\ store[s].companies = w[s].n
            /\ store[s].posts = hist[s].returned
            /\ store[s].leads = hist[s].meeting
            /\ Cardinality(LeadsOf(s)) = hist[s].meeting

C9_Witness ==
    \E s \in ScanIds :
        /\ WorkerExited(s) /\ ~hist[s].cancelSaved /\ ~hist[s].raised
        /\ faults = 0
        /\ w[s].n = MaxCompanies
        /\ hist[s].meeting >= 1 /\ hist[s].returned > hist[s].meeting

\* the ids of different (scan id, sequence number) pairs differ
LeadIdInjective ==
    \A s1, s2 \in ScanIdUniverse : \A n1, n2 \in 0..(MaxCompanies * MaxPosts) :
        LeadId(s1, n1) = LeadId(s2, n2) => s1 = s2 /\ n1 = n2

\* C10: the lead id is an injective function of (scan id, sequence number),
\* every save_lead of the worker made a record of its own under the id of its
\* sequence number, and saving a stored lead again adds no record.
C10_LeadIds ==
    /\ LeadIdInjective
    /\ \A s \in ScanIds :
          /\ LeadsOf(s) = { LeadId(s, n) : n \in 0..(hist[s].saved - 1) }
          /\ Cardinality(LeadsOf(s)) = hist[s].saved
    /\ \A k \in DOMAIN leads :
          /\ leads[k].id = k
          /\ save_lead(k, leads[k]) = leads

C10_Witness ==
    \E s \in ScanIds : Cardinality(LeadsOf(s)) >= 2 /\ hist[s].saved >= 2

\* C11: a start request with malformed parameters (empty location, radius
\* <= 0, lookback < 0 or no milestone type) is rejected before any record is
\* saved and before any worker is started: no stored record, no registry
\* entry and no worker exists for it.
C11_MalformedRejected ==
    \A s \in ScanIds :
        rpc[s] # "none" /\ Malformed(params[s])
            => ~Stored(s) /\ s \notin active_scans /\ wpc[s] = "idle"

\* C14: an exception raised while one company is processed is caught and the
\* company skipped: a single extractor failure does not send the worker into
\* fail_scan and does not make the job failed.  Stated for the runs in which
\* no storage call raises, where raised means the extractor raised once.
C14_SingleFailureSkipped ==
    \A s \in ScanIds :
        faults = 0 /\ hist[s].raised
            => /\ wpc[s] \notin {"fail_get", "fail_save", "fail_end"}
               /\ store[s].status # "failed"

\* a step of fail_scan or of the cancel route
FailOrCancelStep(s) ==
    \/ wpc[s] \in {"fail_get", "fail_save", "fail_end"} /\ wpc'[s] # wpc[s]
    \/ cpc'[s] # cpc[s]

\* fail_scan has run to its end
FailScanDone(s) ==
    logs[s] # <<>> /\ logs[s][Len(logs[s])] = "failed"

C16_ErrorOnlyIfFailed ==
    \A s \in ScanIds : Stored(s) /\ store[s].error => store[s].status = "failed"

C16_Witness ==
    \E s \in ScanIds :
        /\ Stored(s) /\ store[s].error /\ store[s].status = "failed"
        /\ hist[s].cancelSaved

\* C17: the registry holds a job id only while the job's worker is alive:
\* when the worker has exited, by completion, failure or observed
\* cancellation, its id is not in active_scans.  Stated for the runs in which
\* no storage call raises.
C17_RegistryOnlyLive ==
    \A s \in ScanIds :
        faults = 0 /\ WorkerExited(s) => s \notin active_scans

\* C12: cancel is idempotent: a cancel request that finds the stored status
\* completed, failed or cancelled leaves the stored record unchanged and is
\* answered as a success (200), so also the second of two cancels of one job.
C12_CancelIdempotent ==
    [][\A s \in ScanIds :
          store[s].status \in Terminal /\ resp'[s].cancel # resp[s].cancel
              => store'[s] = store[s] /\ resp'[s].cancel = 200]_vars

\* C13: a cancel or status request for an id without a stored record is
\* answered not found (404) and leaves the job store, the lead store and the
\* registry unchanged.
C13_NotFound ==
    [][\A s \in ScanIds :
          ~Stored(s) /\ resp'[s] # resp[s]
              => /\ resp'[s].cancel \in {resp[s].cancel, 404}
                 /\ resp'[s].status \in {resp[s].status, 404}
                 /\ store' = store /\ leads' = leads
                 /\ active_scans' = active_scans]_vars

C13_Witness ==
    \E s \in ScanIds :
        ~Stored(s) /\ resp[s].cancel = 404 /\ resp[s].status = 404

\* C18: a post becomes a lead exactly when (a) its milestone type is in the
\* requested set, (b) its score reaches the acceptance threshold and (c) it
\* passes every structural filter present in the search parameters: location
\* match, age within the lookback window, seniority, company size.
C18_AcceptIff ==
    \A i \in DOMAIN lp.out :
        LET lead == lp.lead
            sp == lp.search_params
            now == lp.out[i].now
            requested == InList(lead.milestone_type, sp.milestone_types)
            scored == _score_lead(lead, lp.analysis, now) >= AcceptThreshold
            located ==
                sp.location # <<>> =>
                    \E k \in DOMAIN sp.location :
                        Contains(lower(sp.location[k]), lower(lead.location))
            recent ==
                /\ lead.created_at # <<>>
                /\ now - lead.created_at[1] <= sp.max_age_days
            senior ==
                sp.seniority_levels # <<>> =>
                    InList(lead.seniority_level, sp.seniority_levels)
            sized ==
                sp.company_size.given =>
                    /\ sp.company_size.min <= lead.company_size
                    /\ lead.company_size <= sp.company_size.max
        IN lp.out[i].accept <=>
               requested /\ scored /\ located /\ recent /\ senior /\ sized

\* C19: two evaluations of the same post with the same search parameters and
\* the same analyzer output return the same accept decision and the same
\* score: nothing that the caller did not pass in (a wall clock read inside
\* the function, randomness, earlier calls) influences the result.
C19_Deterministic ==
    /\ \A i, j \in DOMAIN lp.out :
          /\ lp.out[i].accept = lp.out[j].accept
          /\ lp.out[i].relevance_score = lp.out[j].relevance_score
    /\ \A i, j \in DOMAIN lp.scores : lp.scores[i] = lp.scores[j]

\* C20: whatever the lead, its age, its seniority level and the relevance the
\* analyzer returned (below 0 and above 100 included), the score _score_lead
\* returns is an integer in 0..100.
C20_ScoreInRange ==
    /\ \A i \in DOMAIN lp.scores : lp.scores[i] \in 0..ScoreCap
    /\ \A i \in DOMAIN lp.out :
          lp.out[i].accept => lp.out[i].relevance_score \in 0..ScoreCap

\* C21: the recency bonus that _score_lead adds lies between 0 and the
\* maximum of 15 points for every age in days, age 0 and negative ages
\* included, and it never grows with the age.
C21_RecencyBounded ==
    /\ \A i \in DOMAIN lp.recency :
          /\ 0 <= lp.recency[i].recency_score
          /\ lp.recency[i].recency_score <= 2 * RecencyMax
    /\ \A i, j \in DOMAIN lp.recency :
          lp.recency[i].age_days <= lp.recency[j].age_days
              => lp.recency[i].recency_score >= lp.recency[j].recency_score

\* C22: the scan log of a job is append-only: of two successive stored logs
\* of a job the earlier is a prefix of the later; no step removes, reorders
\* or rewrites an entry.
C22_LogAppendOnly ==
    [][\A s \in ScanIds :
          /\ Len(logs[s]) <= Len(logs'[s])
          /\ SubSeq(logs'[s], 1, Len(logs[s])) = logs[s]]_vars

C22_Witness ==
    \E s \in ScanIds :
        /\ Len(logs[s]) >= 4
        /\ logs[s][1] = "start"
        /\ logs[s][Len(logs[s])] = "completed"

\* C23: a persisted lead is immutable: once a lead is saved, no later
\* operation (get_lead_details, favorite_lead, analyze_lead) rewrites the
\* record stored under its id.
C23_LeadImmutable ==
    [][\A k \in DOMAIN leads :
          k \in DOMAIN leads' /\ leads'[k] = leads[k]]_vars

\* C23 as amended: once a lead is saved it stays stored, and no later
\* operation changes a field the worker wrote (id, scan_id, company, score);
\* the lead routes rewrite the record only to add the analysis and the
\* favorites.
C23_WorkerFieldsKept ==
    [][\A k \in DOMAIN leads :
          /\ k \in DOMAIN leads'
          /\ \A f \in WorkerKeys : leads'[k][f] = leads[k][f]]_vars

C23_Witness ==
    \E k \in DOMAIN leads :
        /\ lr.details.pc = "done" /\ lr.details.id = k
        /\ "analysis" \in DOMAIN leads[k]
        /\ "favorites" \in DOMAIN leads[k]
        /\ leads[k]["id"] = k /\ leads[k]["score"] >= AcceptThreshold

\* C29: once favorite_lead has answered success for a lead and a user, the
\* user is in the lead's stored favorites, exactly once, in every later
\* state, whatever other favorite_lead and get_lead_details requests
\* interleave; favoriting twice leaves the list unchanged.
C29_FavoriteKept ==
    \A fav \in lr.favored :
        /\ fav[1] \in DOMAIN leads
        /\ "favorites" \in DOMAIN leads[fav[1]]
        /\ LET favorites == leads[fav[1]]["favorites"]
           IN Cardinality({ i \in DOMAIN favorites : favorites[i] = fav[2] }) = 1

\* C24: while the stored status of a job is pending no lead of the job is
\* stored; the first lead of a job is saved only after start_scan_async has
\* stored the record with status in_progress.
C24_NoLeadWhilePending ==
    \A s \in ScanIds :
        /\ store[s].status = "pending" => LeadsOf(s) = {}
        /\ LeadsOf(s) # {} => rpc[s] \in {"started", "returned"}

C24_Witness ==
    \E s \in ScanIds :
        /\ LeadsOf(s) # {} /\ store[s].status = "in_progress"
        /\ rpc[s] = "started"

\* C25: when the worker's check reads status cancelled, the worker writes
\* nothing more for the job (no save_scan, no save_lead, no log entry) and
\* calls the extractor for no further company: the check ends the thread,
\* and the stored record stays the one the cancel left.
C25_NoWriteAfterCancelSeen ==
    [][\A s \in ScanIds :
          /\ ( /\ wpc[s] \in {"check0", "check"} /\ wpc'[s] # wpc[s]
               /\ store[s].status = "cancelled" /\ faults' = faults )
                => /\ wpc'[s] = "done"
                   /\ store' = store /\ logs' = logs /\ leads' = leads
          /\ wpc[s] = "done"
                => /\ wpc'[s] = "done" /\ w' = w
                   /\ logs' = logs /\ leads' = leads
                   /\ store' = store \/ cpc'[s] # cpc[s]]_vars

C25_Witness ==
    \E s \in ScanIds :
        /\ wpc[s] = "done" /\ store[s].status = "cancelled"
        /\ hist[s].cancelSaved
        /\ w[s].i >= 1 /\ w[s].i < w[s].n
        /\ logs[s][Len(logs[s])] \notin {"completed", "failed"}

\* C26: within a job the companies are processed in discovery order; the
\* record write that carries the stats including company i comes after every
\* lead of company i is saved and before the extractor is called for company
\* i+1; a stored record never counts leads that are not yet persisted.
C26_StatsAfterLeads ==
    \A s \in ScanIds :
        LET saved == LeadsOf(s)
            persisted == Cardinality(saved)
        IN  /\ Stored(s) => store[s].leads <= persisted
            /\ \A k \in saved : leads[k].company <= w[s].i
            /\ wpc[s] \in {"s_get", "s_save"}
                  => /\ w[s].posts = <<>>
                     /\ w[s].total_posts = hist[s].returned
                     /\ w[s].total_leads = persisted
            /\ wpc[s] = "extract"
                  => /\ w[s].total_posts = hist[s].returned
                     /\ w[s].total_leads = persisted
                     /\ \A k \in saved : leads[k].company < w[s].i

C26_Witness ==
    \E s \in ScanIds :
        /\ wpc[s] = "extract" /\ w[s].i = 1
        /\ Cardinality(LeadsOf(s)) = 1
        /\ store[s].leads = 1 /\ store[s].posts = 1

\* C27: after any sequence of save_all_posts and save_high_value_leads from
\* empty main files, a main file holds no two items with the same id and no
\* item without an id; a save never removes or replaces a stored item (the
\* file before the save is a prefix of the file after it), and what it adds
\* are items of the batch whose ids were not stored before.
C27_MainFileDeduplicated ==
    ds # NotRun =>
        /\ \A f \in Files :
              /\ \A i, j \in 1..Len(ds.main[f]) :
                    ds.main[f][i].id = ds.main[f][j].id => i = j
              /\ "" \notin ItemIdsOf(ds.main[f])
        /\ ds.last # NoSave =>
              LET after == ds.main[ds.last.file]
                  before == ds.last.before
              IN  /\ Len(before) <= Len(after)
                  /\ SubSeq(after, 1, Len(before)) = before
                  /\ \A i \in (Len(before) + 1)..Len(after) :
                        /\ after[i].id \notin ItemIdsOf(before)
                        /\ after[i].id \in ds.last.offered

C27_Witness ==
    /\ ds # NotRun
    /\ ds.last # NoSave
    /\ Len(ds.last.before) = 1
    /\ Len(ds.main[ds.last.file]) = 2
    /\ ds.last.before[1].id \in ds.last.offered
    /\ ds.main[ds.last.file][2].id \in ds.last.offered

\* What each filter of the search parameters asks of a field that the lead
\* has.
LocationPass(lead, sp) ==
    sp.location # <<>> /\ lead.location # <<>> =>
        \E k \in DOMAIN sp.location :
            Contains(lower(sp.location[k]), lower(lead.location))
AgePass(lead, sp, now) ==
    sp.max_age_days # 0 /\ lead.created_at # <<>> =>
        now - lead.created_at[1] <= sp.max_age_days
SeniorityPass(lead, sp) ==
    sp.seniority_levels # <<>> =>
        InList(lead.seniority_level, sp.seniority_levels)
SizePass(lead, sp) ==
    sp.company_size.given /\ lead.company_size # 0 =>
        /\ sp.company_size.min <= lead.company_size
        /\ lead.company_size <= sp.company_size.max

\* C28: _filter_lead skips a filter of the search parameters when the lead's
\* field is missing or falsy: a lead with no location passes any location
\* filter, a lead with no created_at any age filter, a lead with company_size
\* 0 any size filter (the decision is that of the other filters); a lead
\* whose seniority_level is 'unknown' is rejected by a seniority filter that
\* does not list 'unknown'.
C28_MissingFieldSkipsFilter ==
    \A i \in DOMAIN lp.out :
        LET lead == lp.lead
            sp == lp.search_params
            now == lp.out[i].now
            accept == lp.out[i].accept
        IN  /\ lead.location = <<>> =>
                  (accept <=> /\ AgePass(lead, sp, now)
                              /\ SeniorityPass(lead, sp) /\ SizePass(lead, sp))
            /\ lead.created_at = <<>> =>
                  (accept <=> /\ LocationPass(lead, sp)
                              /\ SeniorityPass(lead, sp) /\ SizePass(lead, sp))
            /\ lead.company_size = 0 =>
                  (accept <=> /\ LocationPass(lead, sp)
                              /\ AgePass(lead, sp, now)
                              /\ SeniorityPass(lead, sp))
            /\ /\ lead.seniority_level = "unknown"
               /\ sp.seniority_levels # <<>>
               /\ ~InList("unknown", sp.seniority_levels)
               => ~accept

C28_Witness ==
    /\ Len(lp.out) = 2
    /\ lp.lead.location = <<>> /\ lp.search_params.location # <<>>
    /\ lp.lead.created_at = <<>> /\ lp.search_params.max_age_days # 0
    /\ lp.lead.company_size = 0 /\ lp.search_params.company_size.given
    /\ lp.lead.seniority_level = "executive"
    /\ lp.search_params.seniority_levels # <<>>
    /\ lp.out[1].accept /\ lp.out[2].accept

\* C30: every return path of CloudMilestoneLeadGenerator.run_scan, the
\* LinkedIn login failure and an exception in any step included, stores the
\* final results blob under scan_results/ and quits the browser before it
\* returns, and the returned status is 'completed' or 'error', never
\* 'started'.
C30_EveryReturnStoresAndQuits ==
    CloudAt("returned") =>
        /\ cm.final_stored
        /\ cm.quit_called /\ ~cm.driver
        /\ cm.results.status \in {"completed", "error"}

====
